---- MODULE Spec2Model ----
(***************************************************************************)
(* A TLA+ model of sequelize's dialect-aware identifier quoting            *)
(* (quote helpers) and of the utility layer in utils.ts: field-name        *)
(* mapping, deep clone, table-name combination, object flattening and      *)
(* index naming.                                                           *)
(*                                                                         *)
(* JavaScript strings on which the code works character by character are   *)
(* sequences of one-character strings; opaque names (dialects, object      *)
(* keys of where-clauses, attribute names) are TLA+ strings.               *)
(***************************************************************************)
EXTENDS Integers, Sequences, FiniteSets, TLC

VARIABLES
  pc,            \* "call": arguments chosen, call not made; "done": returned
  dialect,       \* quoteIdentifier: argument
  identifier,    \* quoteIdentifier: argument
  options,       \* quoteIdentifier: argument (the caller's own keys)
  quoted,        \* quoteIdentifier: outcome (returned string or thrown error)
  Model,         \* field-name mapping: the model's rawAttributes and _virtualAttributes
  whereArg,      \* mapWhereFieldNames: the where structure as it was passed
  attributes,    \* mapWhereFieldNames: the where structure, mutated in place
  dataValues,    \* mapValueFieldNames: argument
  fields,        \* mapValueFieldNames: argument
  values,        \* mapValueFieldNames: returned mapping
  obj,           \* cloneDeep: argument
  onlyPlain,     \* cloneDeep: argument
  cloned,        \* cloneDeep: returned tree
  tableName1,    \* combineTableNames: argument
  tableName2,    \* combineTableNames: argument
  combined,      \* combineTableNames: returned name
  value,         \* flattenObjectDeep: argument
  flattenedObj,  \* flattenObjectDeep: returned value
  index,         \* nameIndex: the index descriptor, mutated in place
  tableName      \* nameIndex: the argument of the latest call

quoteVars == <<dialect, identifier, options, quoted>>
whereVars == <<whereArg, attributes>>
valueVars == <<dataValues, fields, values>>
cloneVars == <<obj, onlyPlain, cloned>>
combineVars == <<tableName1, tableName2, combined>>
flattenVars == <<value, flattenedObj>>
indexVars == <<index, tableName>>

vars == <<pc, quoteVars, Model, whereVars, valueVars, cloneVars, combineVars,
          flattenVars, indexVars>>

\* The value of a variable that the operation under study does not use.
Idle == "idle"

QuoteIdle == dialect = Idle /\ identifier = Idle /\ options = Idle /\ quoted = Idle
WhereIdle == whereArg = Idle /\ attributes = Idle
ValueIdle == dataValues = Idle /\ fields = Idle /\ values = Idle
CloneIdle == obj = Idle /\ onlyPlain = Idle /\ cloned = Idle
CombineIdle == tableName1 = Idle /\ tableName2 = Idle /\ combined = Idle
FlattenIdle == value = Idle /\ flattenedObj = Idle
IndexIdle == index = Idle /\ tableName = Idle

(***************************************************************************)
(* Strings                                                                 *)
(***************************************************************************)

\* Longest identifier handed to quoteIdentifier.
MaxIdLen == 3

Uppers == <<"A","B","C","D","E","F","G","H","I","J","K","L","M",
            "N","O","P","Q","R","S","T","U","V","W","X","Y","Z">>

Lowers == <<"a","b","c","d","e","f","g","h","i","j","k","l","m",
            "n","o","p","q","r","s","t","u","v","w","x","y","z">>

\* String.prototype.toLowerCase, one character.
ToLowerChar(c) ==
  IF \E i \in 1..Len(Uppers) : Uppers[i] = c
  THEN Lowers[CHOOSE i \in 1..Len(Uppers) : Uppers[i] = c]
  ELSE c

toLowerCase(s) == [i \in 1..Len(s) |-> ToLowerChar(s[i])]

\* String.prototype.includes(sub).
includes(s, sub) ==
  \E i \in 1..(Len(s) - Len(sub) + 1) : SubSeq(s, i, i + Len(sub) - 1) = sub

\* s.replace(/[chars]/g, ''): s without the characters of the set.
RECURSIVE StripChars(_, _)
StripChars(s, chars) ==
  IF s = <<>> THEN <<>>
  ELSE IF Head(s) \in chars THEN StripChars(Tail(s), chars)
       ELSE <<Head(s)>> \o StripChars(Tail(s), chars)

\* All strings over alphabet of length at most n.
StringsUpTo(alphabet, n) == UNION {[1..k -> alphabet] : k \in 0..n}

(***************************************************************************)
(* utils.ts: tick primitives                                               *)
(***************************************************************************)

\* The backtick, which a TLA+ string literal cannot hold, is the character "TICK".
TICK_CHAR == "TICK"

removeTicks(s, tickChar) == StripChars(s, {tickChar})

\* addTicks that forgets the closing tick.
addTicks_NoClosing(s, tickChar) == <<tickChar>> \o removeTicks(s, tickChar)

addTicks(s, tickChar) == <<tickChar>> \o removeTicks(s, tickChar) \o <<tickChar>>

(***************************************************************************)
(* quote helpers: quoteIdentifier                                          *)
(***************************************************************************)

postgresReservedWords ==
  { <<"a","l","l">>,
    <<"a","n","a","l","y","s","e">>,
    <<"a","n","a","l","y","z","e">>,
    <<"a","n","d">>,
    <<"a","n","y">>,
    <<"a","r","r","a","y">>,
    <<"a","s">>,
    <<"a","s","c">>,
    <<"a","s","y","m","m","e","t","r","i","c">>,
    <<"a","u","t","h","o","r","i","z","a","t","i","o","n">>,
    <<"b","i","n","a","r","y">>,
    <<"b","o","t","h">>,
    <<"c","a","s","e">>,
    <<"c","a","s","t">>,
    <<"c","h","e","c","k">>,
    <<"c","o","l","l","a","t","e">>,
    <<"c","o","l","l","a","t","i","o","n">>,
    <<"c","o","l","u","m","n">>,
    <<"c","o","n","c","u","r","r","e","n","t","l","y">>,
    <<"c","o","n","s","t","r","a","i","n","t">>,
    <<"c","r","e","a","t","e">>,
    <<"c","r","o","s","s">>,
    <<"c","u","r","r","e","n","t","_","c","a","t","a","l","o","g">>,
    <<"c","u","r","r","e","n","t","_","d","a","t","e">>,
    <<"c","u","r","r","e","n","t","_","r","o","l","e">>,
    <<"c","u","r","r","e","n","t","_","s","c","h","e","m","a">>,
    <<"c","u","r","r","e","n","t","_","t","i","m","e">>,
    <<"c","u","r","r","e","n","t","_","t","i","m","e","s","t","a","m","p">>,
    <<"c","u","r","r","e","n","t","_","u","s","e","r">>,
    <<"d","e","f","a","u","l","t">>,
    <<"d","e","f","e","r","r","a","b","l","e">>,
    <<"d","e","s","c">>,
    <<"d","i","s","t","i","n","c","t">>,
    <<"d","o">>,
    <<"e","l","s","e">>,
    <<"e","n","d">>,
    <<"e","x","c","e","p","t">>,
    <<"f","a","l","s","e">>,
    <<"f","e","t","c","h">>,
    <<"f","o","r">>,
    <<"f","o","r","e","i","g","n">>,
    <<"f","r","e","e","z","e">>,
    <<"f","r","o","m">>,
    <<"f","u","l","l">>,
    <<"g","r","a","n","t">>,
    <<"g","r","o","u","p">>,
    <<"h","a","v","i","n","g">>,
    <<"i","l","i","k","e">>,
    <<"i","n">>,
    <<"i","n","i","t","i","a","l","l","y">>,
    <<"i","n","n","e","r">>,
    <<"i","n","t","e","r","s","e","c","t">>,
    <<"i","n","t","o">>,
    <<"i","s">>,
    <<"i","s","n","u","l","l">>,
    <<"j","o","i","n">>,
    <<"l","a","t","e","r","a","l">>,
    <<"l","e","a","d","i","n","g">>,
    <<"l","e","f","t">>,
    <<"l","i","k","e">>,
    <<"l","i","m","i","t">>,
    <<"l","o","c","a","l","t","i","m","e">>,
    <<"l","o","c","a","l","t","i","m","e","s","t","a","m","p">>,
    <<"n","a","t","u","r","a","l">>,
    <<"n","o","t">>,
    <<"n","o","t","n","u","l","l">>,
    <<"n","u","l","l">>,
    <<"o","f","f","s","e","t">>,
    <<"o","n">>,
    <<"o","n","l","y">>,
    <<"o","r">>,
    <<"o","r","d","e","r">>,
    <<"o","u","t","e","r">>,
    <<"o","v","e","r","l","a","p","s">>,
    <<"p","l","a","c","i","n","g">>,
    <<"p","r","i","m","a","r","y">>,
    <<"r","e","f","e","r","e","n","c","e","s">>,
    <<"r","e","t","u","r","n","i","n","g">>,
    <<"r","i","g","h","t">>,
    <<"s","e","l","e","c","t">>,
    <<"s","e","s","s","i","o","n","_","u","s","e","r">>,
    <<"s","i","m","i","l","a","r">>,
    <<"s","o","m","e">>,
    <<"s","y","m","m","e","t","r","i","c">>,
    <<"t","a","b","l","e">>,
    <<"t","a","b","l","e","s","a","m","p","l","e">>,
    <<"t","h","e","n">>,
    <<"t","o">>,
    <<"t","r","a","i","l","i","n","g">>,
    <<"t","r","u","e">>,
    <<"u","n","i","o","n">>,
    <<"u","n","i","q","u","e">>,
    <<"u","s","e","r">>,
    <<"u","s","i","n","g">>,
    <<"v","a","r","i","a","d","i","c">>,
    <<"v","e","r","b","o","s","e">>,
    <<"w","h","e","n">>,
    <<"w","h","e","r","e">>,
    <<"w","i","n","d","o","w">>,
    <<"w","i","t","h">> }

\* The defaults of QuoteIdentifierOptions, overridden by the caller's keys.
OptionDefaults == [force |-> FALSE, quoteIdentifiers |-> TRUE]

MergeOptions(opts) == opts @@ OptionDefaults

Returned(s) == [kind |-> "return", value |-> s, errorName |-> "", message |-> <<>>]

\* throw new Error(...): the message is the template around the dialect.
Thrown(d) ==
  [kind |-> "throw", value |-> <<>>, errorName |-> "Error",
   message |-> <<"Dialect \"", d, "\" is not supported">>]

WILDCARD == <<"*">>

\* The postgres case without the reserved-word test.
PostgresQuote_IgnoreReserved(id, opts) ==
  LET rawIdentifier == removeTicks(id, "\"")
  IN IF /\ opts.force # TRUE
        /\ opts.quoteIdentifiers = FALSE
        /\ ~includes(id, <<".">>)
        /\ ~includes(id, <<"-", ">">>)
     THEN rawIdentifier
     ELSE addTicks(rawIdentifier, "\"")

PostgresQuote(id, opts) ==
  LET rawIdentifier == removeTicks(id, "\"")
  IN IF /\ opts.force # TRUE
        /\ opts.quoteIdentifiers = FALSE
        /\ ~includes(id, <<".">>)
        /\ ~includes(id, <<"-", ">">>)
        /\ toLowerCase(rawIdentifier) \notin postgresReservedWords
     THEN rawIdentifier
     ELSE addTicks(rawIdentifier, "\"")

\* quoteIdentifier whose default case hands the identifier back instead of throwing.
quoteIdentifier_NoThrow(d, id, o) ==
  IF id = WILDCARD THEN Returned(id)
  ELSE LET opts == MergeOptions(o)
       IN CASE d \in {"sqlite", "mariadb", "mysql"} ->
                 Returned(addTicks(removeTicks(id, TICK_CHAR), TICK_CHAR))
            [] d = "postgres" -> Returned(PostgresQuote(id, opts))
            [] d = "mssql" ->
                 Returned(<<"[">> \o StripChars(id, {"[", "]", "'"}) \o <<"]">>)
            [] OTHER -> Returned(id)

quoteIdentifier(d, id, o) ==
  IF id = WILDCARD THEN Returned(id)
  ELSE LET opts == MergeOptions(o)
       IN CASE d \in {"sqlite", "mariadb", "mysql"} ->
                 Returned(addTicks(removeTicks(id, TICK_CHAR), TICK_CHAR))
            [] d = "postgres" -> Returned(PostgresQuote(id, opts))
            [] d = "mssql" ->
                 Returned(<<"[">> \o StripChars(id, {"[", "]", "'"}) \o <<"]">>)
            [] OTHER -> Thrown(d)

\* The inputs of the quoting model.
SupportedDialects == {"sqlite", "mariadb", "mysql", "postgres", "mssql"}

OtherDialects == {"oracle", "Postgres"}

IdChars == {"a", "s", "S", "*", "\"", TICK_CHAR, ".", "-", ">", "[", "]", "'"}

OptionKeys == {"force", "quoteIdentifiers"}

OptionValues == UNION {[D -> BOOLEAN] : D \in SUBSET OptionKeys}

NoResult == [kind |-> "none", value |-> <<>>, errorName |-> "", message |-> <<>>]

InitQuote ==
  /\ pc = "call"
  /\ dialect \in SupportedDialects \cup OtherDialects
  /\ identifier \in StringsUpTo(IdChars, MaxIdLen)
  /\ options \in OptionValues
  /\ quoted = NoResult
  /\ Model = Idle
  /\ WhereIdle /\ ValueIdle /\ CloneIdle /\ CombineIdle /\ FlattenIdle /\ IndexIdle

QuoteIdentifier ==
  /\ pc = "call"
  /\ quoted' = quoteIdentifier(dialect, identifier, options)
  /\ pc' = "done"
  /\ UNCHANGED <<dialect, identifier, options>>
  /\ UNCHANGED <<Model, whereVars, valueVars, cloneVars, combineVars, flattenVars, indexVars>>

NextQuote == QuoteIdentifier

SpecQuote == InitQuote /\ [][NextQuote]_vars

(***************************************************************************)
(* Properties of quoteIdentifier                                           *)
(***************************************************************************)

\* The option values in force: the caller's value, or the documented default.
ForceOf(o) == IF "force" \in DOMAIN o THEN o["force"] ELSE FALSE

QuoteIdentifiersOf(o) ==
  IF "quoteIdentifiers" \in DOMAIN o THEN o["quoteIdentifiers"] ELSE TRUE

\* The identifier with every double-quote character removed.
RawOf(id) == SelectSeq(id, LAMBDA c : c # "\"")

HasDot(id) == \E i \in 1..Len(id) : id[i] = "."

HasArrow(id) == \E i \in 1..(Len(id) - 1) : id[i] = "-" /\ id[i + 1] = ">"

\* The postgres rule as the specification words it.
PostgresUnquoted(id, o) ==
  /\ ~ForceOf(o)
  /\ ~QuoteIdentifiersOf(o)
  /\ ~HasDot(id)
  /\ ~HasArrow(id)
  /\ [i \in 1..Len(RawOf(id)) |-> ToLowerChar(RawOf(id)[i])] \notin postgresReservedWords

PostgresExpected(id, o) ==
  IF PostgresUnquoted(id, o) THEN RawOf(id) ELSE <<"\"">> \o RawOf(id) \o <<"\"">>

\* C1 as stated: for dialect postgres and every identifier and options,
\* quoteIdentifier returns the identifier stripped of double quotes exactly when
\* force is not true, quoteIdentifiers is false, the identifier holds neither
\* "." nor "->" and the lowercased stripped identifier is not reserved; it
\* returns the stripped identifier in double quotes in every other case.
C1_AsStated ==
  (pc = "done" /\ dialect = "postgres") =>
     quoted = Returned(PostgresExpected(identifier, options))

\* C1 amended: the same rule for every identifier other than the wildcard "*",
\* which is returned as it is whatever the options.
C1_PostgresRule ==
  (pc = "done" /\ dialect = "postgres") =>
     quoted = Returned(IF identifier = <<"*">> THEN identifier
                       ELSE PostgresExpected(identifier, options))

\* C1 witness: a reserved word, in mixed case, is quoted although
\* quoteIdentifiers is false.
C1_Witness ==
  /\ pc = "done"
  /\ dialect = "postgres"
  /\ identifier = <<"a", "S">>
  /\ options = [quoteIdentifiers |-> FALSE]
  /\ quoted.value = <<"\"", "a", "S", "\"">>

OpenDelimiter(d) == IF d = "mssql" THEN "[" ELSE TICK_CHAR

CloseDelimiter(d) == IF d = "mssql" THEN "]" ELSE TICK_CHAR

AlwaysQuotingDialects == {"sqlite", "mariadb", "mysql", "mssql"}

Wrapped(d, r) ==
  /\ r.kind = "return"
  /\ Len(r.value) >= 2
  /\ r.value[1] = OpenDelimiter(d)
  /\ r.value[Len(r.value)] = CloseDelimiter(d)

OptionIndependent(d, id, r) ==
  \A o \in OptionValues : quoteIdentifier(d, id, o) = r

\* C2 as stated: for sqlite, mariadb, mysql and mssql, for every identifier and
\* options, the output is wrapped in the dialect's delimiter and does not
\* depend on the options.
C2_AsStated ==
  (pc = "done" /\ dialect \in AlwaysQuotingDialects) =>
     /\ Wrapped(dialect, quoted)
     /\ OptionIndependent(dialect, identifier, quoted)

\* C2 amended: for every identifier other than the wildcard "*" the output is
\* wrapped in the dialect's delimiter; for every identifier, the wildcard
\* included, it does not depend on the options.
C2_AlwaysWrapped ==
  (pc = "done" /\ dialect \in AlwaysQuotingDialects) =>
     /\ identifier # <<"*">> => Wrapped(dialect, quoted)
     /\ identifier = <<"*">> => quoted = Returned(identifier)
     /\ OptionIndependent(dialect, identifier, quoted)

\* C2 witness: an mssql identifier made of delimiters only comes back as "[]",
\* with options that would leave a postgres identifier unquoted.
C2_Witness ==
  /\ pc = "done"
  /\ dialect = "mssql"
  /\ identifier = <<"]", "'", "[">>
  /\ options = [quoteIdentifiers |-> FALSE, force |-> FALSE]
  /\ quoted.value = <<"[", "]">>

MessageNames(r, d) == \E i \in 1..Len(r.message) : r.message[i] = d

MaxTableNameLen == 2

\* The UTF-16 code unit of a letter or of the underscore.
CharCode(c) ==
  IF \E i \in 1..Len(Uppers) : Uppers[i] = c
  THEN 64 + (CHOOSE i \in 1..Len(Uppers) : Uppers[i] = c)
  ELSE IF \E i \in 1..Len(Lowers) : Lowers[i] = c
       THEN 96 + (CHOOSE i \in 1..Len(Lowers) : Lowers[i] = c)
       ELSE 95

\* The < of two JavaScript strings: code unit by code unit, a proper prefix first.
RECURSIVE StringLess(_, _)
StringLess(s, t) ==
  IF t = <<>> THEN FALSE
  ELSE IF s = <<>> THEN TRUE
  ELSE IF CharCode(Head(s)) # CharCode(Head(t))
       THEN CharCode(Head(s)) < CharCode(Head(t))
       ELSE StringLess(Tail(s), Tail(t))

combineTableNames(t1, t2) ==
  IF StringLess(toLowerCase(t1), toLowerCase(t2)) THEN t1 \o t2 ELSE t2 \o t1

TableNameChars == {"a", "A", "b", "B", "_"}

InitCombine ==
  /\ pc = "call"
  /\ tableName1 \in StringsUpTo(TableNameChars, MaxTableNameLen)
  /\ tableName2 \in StringsUpTo(TableNameChars, MaxTableNameLen)
  /\ combined = <<>>
  /\ Model = Idle
  /\ QuoteIdle /\ WhereIdle /\ ValueIdle /\ CloneIdle /\ FlattenIdle /\ IndexIdle

CombineTableNames ==
  /\ pc = "call"
  /\ combined' = combineTableNames(tableName1, tableName2)
  /\ pc' = "done"
  /\ UNCHANGED <<tableName1, tableName2>>
  /\ UNCHANGED <<Model, quoteVars, whereVars, valueVars, cloneVars, flattenVars, indexVars>>

NextCombine == CombineTableNames

SpecCombine == InitCombine /\ [][NextCombine]_vars

\* Case-insensitive lexicographic order, stated on positions: s precedes t when
\* they first differ at a position where s has the smaller lowercased letter,
\* or when s is a proper prefix of t.
PrecedesIgnoringCase(s, t) ==
  \/ /\ Len(s) < Len(t)
     /\ \A i \in 1..Len(s) : ToLowerChar(s[i]) = ToLowerChar(t[i])
  \/ \E i \in 1..Len(s) :
       /\ i <= Len(t)
       /\ \A j \in 1..(i - 1) : ToLowerChar(s[j]) = ToLowerChar(t[j])
       /\ CharCode(ToLowerChar(s[i])) < CharCode(ToLowerChar(t[i]))

\* C8: combineTableNames is order-independent: for every pair of names the
\* result is the same with the arguments swapped, and it is the two names,
\* in their original case, with the case-insensitively smaller one first.
C8_AsStated ==
  pc = "done" =>
    /\ combined = combineTableNames(tableName2, tableName1)
    /\ PrecedesIgnoringCase(tableName1, tableName2) => combined = tableName1 \o tableName2
    /\ PrecedesIgnoringCase(tableName2, tableName1) => combined = tableName2 \o tableName1

(***************************************************************************)
(* The model contract: rawAttributes maps a logical attribute name to its  *)
(* physical field, its fieldName (the attribute's own name) and its type;  *)
(* _virtualAttributes is a set of attribute names.                         *)
(***************************************************************************)

AttrNames == {"a", "b"}

\* Physical column names: those of the attributes, and one that is no attribute.
Columns == AttrNames \cup {"x"}

\* A field that is not declared (undefined or empty: falsy).
NoField == ""

DataTypeNames == {"STRING", "JSON", "HSTORE"}

RawAttribute(name, field, type) == [field |-> field, fieldName |-> name, type |-> type]

\* All rawAttributes over the attribute names, with fields and types of the given sets.
RawAttributeSets(fieldSet, typeSet) ==
  UNION { { ra \in [D -> [field : fieldSet, fieldName : AttrNames, type : typeSet]] :
              \A n \in D : ra[n].fieldName = n }
          : D \in SUBSET AttrNames }

\* obj[key] = v on a mapping.
Put(m, k, v) == [x \in (DOMAIN m) \cup {k} |-> IF x = k THEN v ELSE m[x]]

EmptyObject == <<>>

(***************************************************************************)
(* utils.ts: mapValueFieldNames                                            *)
(***************************************************************************)

\* Longest fields list handed to mapValueFieldNames.
MaxFields == 2

\* One turn of the loop over fields, with every attribute taken as not virtual.
MapValueStep_KeepVirtual(vals, dv, attr, M) ==
  IF attr \in DOMAIN dv
  THEN IF /\ attr \in DOMAIN M.rawAttributes
          /\ M.rawAttributes[attr].field # NoField
          /\ M.rawAttributes[attr].field # attr
       THEN Put(vals, M.rawAttributes[attr].field, dv[attr])
       ELSE Put(vals, attr, dv[attr])
  ELSE vals

\* One turn of the loop over fields; a name that dataValues does not hold is undefined.
MapValueStep(vals, dv, attr, M) ==
  IF attr \in DOMAIN dv /\ attr \notin M._virtualAttributes
  THEN IF /\ attr \in DOMAIN M.rawAttributes
          /\ M.rawAttributes[attr].field # NoField
          /\ M.rawAttributes[attr].field # attr
       THEN Put(vals, M.rawAttributes[attr].field, dv[attr])
       ELSE Put(vals, attr, dv[attr])
  ELSE vals

RECURSIVE MapValueLoop(_, _, _, _)
MapValueLoop(vals, dv, fs, M) ==
  IF fs = <<>> THEN vals
  ELSE MapValueLoop(MapValueStep(vals, dv, Head(fs), M), dv, Tail(fs), M)

mapValueFieldNames(dv, fs, M) == MapValueLoop(EmptyObject, dv, fs, M)

ValueNames == Columns

DataValueSets == UNION {[D -> {1, 2}] : D \in SUBSET ValueNames}

ValueModels ==
  [rawAttributes : RawAttributeSets(Columns \cup {NoField}, {"STRING"}),
   _virtualAttributes : SUBSET AttrNames]

NoValues == [returned |-> FALSE, map |-> EmptyObject]

InitValues ==
  /\ pc = "call"
  /\ Model \in ValueModels
  /\ dataValues \in DataValueSets
  /\ fields \in StringsUpTo(ValueNames, MaxFields)
  /\ values = NoValues
  /\ QuoteIdle /\ WhereIdle /\ CloneIdle /\ CombineIdle /\ FlattenIdle /\ IndexIdle

MapValueFieldNames ==
  /\ pc = "call"
  /\ values' = [returned |-> TRUE, map |-> mapValueFieldNames(dataValues, fields, Model)]
  /\ pc' = "done"
  /\ UNCHANGED <<Model, dataValues, fields>>
  /\ UNCHANGED <<quoteVars, whereVars, cloneVars, combineVars, flattenVars, indexVars>>

NextValues == MapValueFieldNames

SpecValues == InitValues /\ [][NextValues]_vars

\* The key a name is stored under: the physical field when one is declared and
\* differs from the name, the name otherwise.
TargetOf(name) ==
  LET ra == Model.rawAttributes
  IN IF name \in DOMAIN ra /\ ra[name].field # NoField /\ ra[name].field # name
     THEN ra[name].field
     ELSE name

\* The positions of fields whose name has a value and is not virtual.
Qualifying ==
  {i \in 1..Len(fields) :
     fields[i] \in DOMAIN dataValues /\ fields[i] \notin Model._virtualAttributes}

\* C6 as stated: the result maps target(name) to dataValues[name] for every
\* name of fields that has a value and is not virtual, and has no other keys.
C6_AsStated ==
  pc = "done" =>
    /\ \A i \in Qualifying :
         /\ TargetOf(fields[i]) \in DOMAIN values.map
         /\ values.map[TargetOf(fields[i])] = dataValues[fields[i]]
    /\ \A k \in DOMAIN values.map : \E i \in Qualifying : TargetOf(fields[i]) = k

\* C6 amended: the keys of the result are the targets of the names of fields
\* that have a value and are not virtual, and each key holds the value of the
\* last such name in fields with that target (the value of the name itself
\* when no later name shares its target).
C6_LastNameWins ==
  pc = "done" =>
    /\ \A i \in Qualifying :
         /\ TargetOf(fields[i]) \in DOMAIN values.map
         /\ (\A j \in Qualifying : j > i => TargetOf(fields[j]) # TargetOf(fields[i]))
              => values.map[TargetOf(fields[i])] = dataValues[fields[i]]
    /\ \A k \in DOMAIN values.map : \E i \in Qualifying : TargetOf(fields[i]) = k

\* C6 witness: a renamed attribute, a virtual one and a name without a value:
\* only the renamed one appears, under its physical field.
C6_Witness ==
  /\ pc = "done"
  /\ fields = <<"a", "b">>
  /\ "a" \in DOMAIN Model.rawAttributes
  /\ Model.rawAttributes["a"].field = "x"
  /\ Model._virtualAttributes = {"b"}
  /\ DOMAIN dataValues = {"a", "b"}
  /\ values.map = [x |-> dataValues["a"]]

(***************************************************************************)
(* utils.ts: underscore and nameIndex                                      *)
(***************************************************************************)

\* Most field entries of an index descriptor.
MaxIndexFields == 2

\* Longest table name handed to nameIndex.
MaxIndexTableLen == 2

IsUpper(c) == \E i \in 1..Len(Uppers) : Uppers[i] = c

\* str.split('::')
RECURSIVE SplitPath(_)
SplitPath(str) ==
  IF includes(str, <<":", ":">>)
  THEN LET i == CHOOSE k \in 1..(Len(str) - 1) :
                  /\ str[k] = ":" /\ str[k + 1] = ":"
                  /\ \A j \in 1..(k - 1) : ~(str[j] = ":" /\ str[j + 1] = ":")
       IN <<SubSeq(str, 1, i - 1)>> \o SplitPath(SubSeq(str, i + 2, Len(str)))
  ELSE <<str>>

\* segment.replace(/([A-Z])/g, '_$1')
RECURSIVE PrefixUppers(_)
PrefixUppers(seg) ==
  IF seg = <<>> THEN <<>>
  ELSE (IF IsUpper(Head(seg)) THEN <<"_", Head(seg)>> ELSE <<Head(seg)>>)
       \o PrefixUppers(Tail(seg))

\* segment.replace(/^_/, '')
DropLeadingUnderbar(seg) == IF seg # <<>> /\ Head(seg) = "_" THEN Tail(seg) ELSE seg

\* segments.join('/')
RECURSIVE JoinWith(_, _)
JoinWith(parts, sep) ==
  IF parts = <<>> THEN <<>>
  ELSE IF Len(parts) = 1 THEN parts[1]
  ELSE parts[1] \o sep \o JoinWith(Tail(parts), sep)

\* underscore(str): the inflection backend's underscore.
underscore(str) ==
  LET path == SplitPath(str)
      done == [i \in 1..Len(path) |-> DropLeadingUnderbar(PrefixUppers(path[i]))]
  IN toLowerCase(JoinWith(done, <<"/">>))

\* What a template string makes of an object.
ObjectObject == <<"[", "o", "b", "j", "e", "c", "t", " ", "O", "b", "j", "e", "c", "t", "]">>

\* typeof field === 'string' ? field : field.name || field.attribute
FieldName(field) ==
  IF field.kind = "string" THEN field.name
  ELSE IF field.name # <<>> THEN field.name ELSE field.attribute

\* nameIndex that names the descriptor at every call.
nameIndex_Unguarded(idx, tn) ==
  LET tableText == IF tn.kind = "object"
                   THEN (IF tn.tableName # <<>> THEN tn.tableName ELSE ObjectObject)
                   ELSE tn.tableName
      names == [i \in 1..Len(idx.fields) |-> FieldName(idx.fields[i])]
  IN [fields |-> idx.fields,
      name |-> underscore(tableText \o <<"_">> \o JoinWith(names, <<"_">>))]

\* nameIndex(index, tableName): the descriptor after the call. A descriptor is
\* a mapping whose own keys are "fields" and, once named, "name".
nameIndex(idx, tn) ==
  LET tableText == IF tn.kind = "object"
                   THEN (IF tn.tableName # <<>> THEN tn.tableName ELSE ObjectObject)
                   ELSE tn.tableName
  IN IF "name" \notin DOMAIN idx
     THEN LET names == [i \in 1..Len(idx.fields) |-> FieldName(idx.fields[i])]
          IN [fields |-> idx.fields,
              name |-> underscore(tableText \o <<"_">> \o JoinWith(names, <<"_">>))]
     ELSE idx

IndexNameChars == {"a", "B"}

IndexFieldNames == {<<"a">>, <<"B">>}

\* Field entries: plain names, and {name, attribute} descriptors whose name may be empty.
IndexFieldEntries ==
  [kind : {"string"}, name : IndexFieldNames, attribute : {<<>>}]
  \cup [kind : {"object"}, name : IndexFieldNames \cup {<<>>}, attribute : IndexFieldNames]

\* Table arguments: a name, or an object holding one (or none).
IndexTableArgs ==
  [kind : {"string", "object"}, tableName : StringsUpTo(IndexNameChars, MaxIndexTableLen)]

\* A name given by the schema definition.
GivenIndexName == <<"i", "x">>

InitIndex ==
  /\ pc = "call"
  /\ \E fs \in StringsUpTo(IndexFieldEntries, MaxIndexFields) :
       index \in {[fields |-> fs], [fields |-> fs, name |-> GivenIndexName]}
  /\ tableName = Idle
  /\ Model = Idle
  /\ QuoteIdle /\ WhereIdle /\ ValueIdle /\ CloneIdle /\ CombineIdle /\ FlattenIdle

NameIndex ==
  \E tn \in IndexTableArgs :
    /\ tableName' = tn
    /\ index' = nameIndex(index, tn)
    /\ pc' = "done"
    /\ UNCHANGED <<Model, quoteVars, whereVars, valueVars, cloneVars, combineVars, flattenVars>>

NextIndex == NameIndex

SpecIndex == InitIndex /\ [][NextIndex]_vars

\* The table name a call is made with.
TableNameText(tn) ==
  IF tn.kind = "object" /\ tn.tableName # <<>> THEN tn.tableName
  ELSE IF tn.kind = "object" THEN ObjectObject
  ELSE tn.tableName

\* tableName + "_" + the field names joined by "_", before underscore.
RECURSIVE IndexNameSource(_, _)
IndexNameSource(acc, fs) ==
  IF fs = <<>> THEN acc
  ELSE IndexNameSource(
         acc \o <<"_">> \o (IF Head(fs).kind = "object" /\ Head(fs).name = <<>>
                            THEN Head(fs).attribute ELSE Head(fs).name),
         Tail(fs))

ExpectedIndexName(fs, tn) ==
  IF fs = <<>> THEN underscore(TableNameText(tn) \o <<"_">>)
  ELSE underscore(IndexNameSource(TableNameText(tn), fs))

\* C10: over any sequence of nameIndex calls on one descriptor, a call on a
\* descriptor without a name sets name to underscore(tableName + "_" + the
\* field names joined by "_") and changes nothing else, and a call on a
\* descriptor that has a name leaves the descriptor as it is: the name is
\* assigned at most once and never changes afterwards.
C10_NamedAtMostOnce ==
  [][IF "name" \in DOMAIN index
     THEN index' = index
     ELSE /\ DOMAIN index' = {"fields", "name"}
          /\ index'.fields = index.fields
          /\ index'.name = ExpectedIndexName(index.fields, tableName')]_vars

\* C10 witness: a descriptor named by a first call has been through a later
\* call with a table name that would have given another name.
C10_Witness ==
  /\ pc = "done"
  /\ index.fields = <<[kind |-> "object", name |-> <<>>, attribute |-> <<"B">>],
                      [kind |-> "string", name |-> <<"a">>, attribute |-> <<>>]>>
  /\ "name" \in DOMAIN index
  /\ index.name = <<"a", "_", "_", "b", "_", "a">>
  /\ tableName = [kind |-> "string", tableName |-> <<"B">>]

(***************************************************************************)
(* JavaScript values as trees. A node is [t, v, ks, es]: t is its kind      *)
(* ("prim", "null", "plain" for a plain keyed structure, "array", or the    *)
(* name of a class for any other object), v the payload of a leaf, ks the   *)
(* own enumerable keys in insertion order and es the values under them (for *)
(* an array, es are the elements and ks is empty).                          *)
(***************************************************************************)

Leaf(t, v) == [t |-> t, v |-> v, ks |-> <<>>, es |-> <<>>]

Node(t, ks, es) == [t |-> t, v |-> 0, ks |-> ks, es |-> es]

\* lodash isPlainObject, Array.isArray
isPlainObject(n) == n.t = "plain"

isArray(n) == n.t = "array"

\* Sequences of distinct keys of the given length.
KeyLists(keys, m) == {ks \in [1..m -> keys] : \A i, j \in 1..m : i # j => ks[i] # ks[j]}

RECURSIVE SeqSum(_)
SeqSum(c) == IF c = <<>> THEN 0 ELSE Head(c) + SeqSum(Tail(c))

\* The ways of writing n as a sum of m sizes, each at least 1.
Compositions(n, m) == {c \in [1..m -> 1..n] : SeqSum(c) = n}

\* Forests whose i-th tree has comp[i] nodes, from a table tbl of the trees of each size.
RECURSIVE ForestsOf(_, _)
ForestsOf(tbl, comp) ==
  IF comp = <<>> THEN {<<>>}
  ELSE {<<t>> \o f : t \in tbl[Head(comp)], f \in ForestsOf(tbl, Tail(comp))}

\* The trees of one node: leaves and empty containers.
SingleNodes(leaves, kinds) == leaves \cup {Node(t, <<>>, <<>>) : t \in kinds \cup {"array"}}

\* The containers over given forests: an array, or an object of a keyed kind.
Containers(forests, m, kinds, keys) ==
  {Node("array", <<>>, f) : f \in forests}
  \cup {Node(t, ks, f) : t \in kinds, ks \in KeyLists(keys, m), f \in forests}

\* Trees of exactly n nodes.
TreesOfSize(tbl, n, leaves, kinds, keys) ==
  IF n = 1 THEN SingleNodes(leaves, kinds)
  ELSE UNION { UNION {Containers(ForestsOf(tbl, c), m, kinds, keys) :
                         c \in Compositions(n - 1, m)}
               : m \in 1..(n - 1) }

\* The table of the trees of 1, 2, ..., n nodes.
RECURSIVE TreeTable(_, _, _, _, _)
TreeTable(tbl, n, leaves, kinds, keys) ==
  IF Len(tbl) >= n THEN tbl
  ELSE TreeTable(Append(tbl, TreesOfSize(tbl, Len(tbl) + 1, leaves, kinds, keys)),
                 n, leaves, kinds, keys)

\* v is a tree of at most n nodes; tbl is the table of the trees of fewer nodes.
TreeUpTo(v, tbl, n, leaves, kinds, keys) ==
     \/ v \in SingleNodes(leaves, kinds)
     \/ \E size \in 2..n : \E m \in 1..(size - 1) : \E c \in Compositions(size - 1, m) :
          \/ v \in {Node("array", <<>>, f) : f \in ForestsOf(tbl, c)}
          \/ v \in {Node(t, ks, f) : t \in kinds, ks \in KeyLists(keys, m),
                                     f \in ForestsOf(tbl, c)}

(***************************************************************************)
(* utils.ts: flattenObjectDeep                                             *)
(***************************************************************************)

\* Most nodes of a value handed to flattenObjectDeep.
MaxFlattenNodes == 4

Digits == <<"0", "1", "2", "3", "4", "5", "6", "7", "8", "9">>

\* Object.keys(obj): the keys of an object, the indices of an array.
ObjectKeys(n) ==
  IF n.t = "array" THEN [i \in 1..Len(n.es) |-> <<Digits[i]>>] ELSE n.ks

\* typeof x === 'object' && x !== null
IsNonNullObject(n) == n.t \notin {"prim", "null"}

\* subPath ? subPath + "." + key : key  (undefined and "" are both falsy)
PathToProperty(subPath, key) ==
  IF subPath # <<>> THEN subPath \o <<".">> \o key ELSE key

\* A flattenObject that takes whatever is not a plain keyed structure as a leaf.
RECURSIVE flattenObject_PlainOnly(_, _, _, _)
flattenObject_PlainOnly(flat, o, subPath, i) ==
  IF i > Len(o.es) THEN flat
  ELSE LET pathToProperty == PathToProperty(subPath, ObjectKeys(o)[i])
           after == IF isPlainObject(o.es[i])
                    THEN flattenObject_PlainOnly(flat, o.es[i], pathToProperty, 1)
                    ELSE Put(flat, pathToProperty, o.es[i])
       IN flattenObject_PlainOnly(after, o, subPath, i + 1)

\* flattenObject(obj, subPath) from the i-th key of obj on, writing into flat.
RECURSIVE flattenObject(_, _, _, _)
flattenObject(flat, o, subPath, i) ==
  IF i > Len(o.es) THEN flat
  ELSE LET pathToProperty == PathToProperty(subPath, ObjectKeys(o)[i])
           after == IF IsNonNullObject(o.es[i])
                    THEN flattenObject(flat, o.es[i], pathToProperty, 1)
                    ELSE Put(flat, pathToProperty, o.es[i])
       IN flattenObject(after, o, subPath, i + 1)

flattenObjectDeep(val) ==
  IF ~isPlainObject(val)
  THEN [passedThrough |-> TRUE, same |-> val, map |-> EmptyObject]
  ELSE [passedThrough |-> FALSE, same |-> Leaf("null", 0),
        map |-> flattenObject(EmptyObject, val, <<>>, 1)]

FlattenLeaves == {Leaf("prim", 1), Leaf("null", 0)}

\* Keys: two plain ones, one that holds a dot, and the empty string.
FlattenKeys == {<<"a">>, <<"b">>, <<"a", ".", "b">>, <<>>}

\* A non-plain object with enumerable keys of its own.
FlattenKinds == {"plain", "Fn"}

FlattenSubtrees ==
  TreeTable(<<>>, MaxFlattenNodes - 1, FlattenLeaves, FlattenKinds, FlattenKeys)

NotFlattened == [passedThrough |-> FALSE, same |-> Leaf("null", 0), map |-> EmptyObject]

InitFlatten ==
  /\ pc = "call"
  /\ TreeUpTo(value, FlattenSubtrees, MaxFlattenNodes, FlattenLeaves, FlattenKinds, FlattenKeys)
  /\ flattenedObj = NotFlattened
  /\ Model = Idle
  /\ QuoteIdle /\ WhereIdle /\ ValueIdle /\ CloneIdle /\ CombineIdle /\ IndexIdle

FlattenObjectDeep ==
  /\ pc = "call"
  /\ flattenedObj' = flattenObjectDeep(value)
  /\ pc' = "done"
  /\ UNCHANGED value
  /\ UNCHANGED <<Model, quoteVars, whereVars, valueVars, cloneVars, combineVars, indexVars>>

NextFlatten == FlattenObjectDeep

SpecFlatten == InitFlatten /\ [][NextFlatten]_vars

(***************************************************************************)
(* Properties of flattenObjectDeep                                         *)
(***************************************************************************)

\* The node reached from n by the child positions ip.
RECURSIVE NodeAt(_, _)
NodeAt(n, ip) == IF ip = <<>> THEN n ELSE NodeAt(n.es[Head(ip)], Tail(ip))

\* Whether a traversal goes below n: below plain keyed structures only, or
\* below every non-null object.
Descends(n, plainOnly) == IF plainOnly THEN isPlainObject(n) ELSE IsNonNullObject(n)

\* The position paths of n, root included.
RECURSIVE PositionPaths(_, _)
PositionPaths(n, plainOnly) ==
  {<<>>} \cup
  (IF Descends(n, plainOnly)
   THEN UNION { {<<i>> \o p : p \in PositionPaths(n.es[i], plainOnly)} : i \in 1..Len(n.es) }
   ELSE {})

\* The keys along a position path.
RECURSIVE KeysAlong(_, _)
KeysAlong(n, ip) ==
  IF ip = <<>> THEN <<>>
  ELSE <<ObjectKeys(n)[Head(ip)]>> \o KeysAlong(n.es[Head(ip)], Tail(ip))

\* Traversal order: keys in insertion order, depth first.
RECURSIVE VisitedBefore(_, _)
VisitedBefore(p, q) ==
  /\ p # <<>> /\ q # <<>>
  /\ \/ Head(p) < Head(q)
     \/ Head(p) = Head(q) /\ VisitedBefore(Tail(p), Tail(q))

\* The keys joined by dots.
DotJoined(keys) == JoinWith(keys, <<".">>)

\* The keys joined by dots, empty keys at the front of the path left out.
RECURSIVE DropEmptyFront(_)
DropEmptyFront(keys) ==
  IF keys # <<>> /\ Head(keys) = <<>> THEN DropEmptyFront(Tail(keys)) ELSE keys

DotJoinedPath(keys) == JoinWith(DropEmptyFront(keys), <<".">>)

\* Leaves as the claim has them: whatever is not a plain keyed structure,
\* reached through plain keyed structures only.
PlainLeafPaths ==
  {p \in PositionPaths(value, TRUE) : p # <<>> /\ ~isPlainObject(NodeAt(value, p))}

\* Leaves as the code has them: whatever is not a non-null object, reached
\* through objects of any kind.
ScalarLeafPaths ==
  {p \in PositionPaths(value, FALSE) : p # <<>> /\ ~IsNonNullObject(NodeAt(value, p))}

PassedThrough == [passedThrough |-> TRUE, same |-> value, map |-> EmptyObject]

\* C9 as stated: a value that is not a plain keyed structure is returned as it
\* is; otherwise the result has exactly one entry per leaf, keyed by the
\* dot-joined path, where only plain keyed structures are descended into: an
\* array or a non-plain object at any depth is a leaf and appears as one entry
\* holding that same value.
C9_AsStated ==
  pc = "done" =>
    IF ~isPlainObject(value) THEN flattenedObj = PassedThrough
    ELSE /\ ~flattenedObj.passedThrough
         /\ \A p \in PlainLeafPaths :
              /\ DotJoined(KeysAlong(value, p)) \in DOMAIN flattenedObj.map
              /\ flattenedObj.map[DotJoined(KeysAlong(value, p))] = NodeAt(value, p)
         /\ \A k \in DOMAIN flattenedObj.map :
              \E p \in PlainLeafPaths : DotJoined(KeysAlong(value, p)) = k

\* C9 amended: a value that is not a plain keyed structure is returned as it
\* is; otherwise every non-null object at any depth (plain keyed structure,
\* array by its indices, other object by its own keys) is descended into and
\* only the other values (null included) are leaves. The keys of the result
\* are the dot-joined paths of the leaves, empty keys at the front of a path
\* left out, and each holds the last leaf with that path in traversal order.
\* No array or object is ever a value of the result, and an empty one leaves
\* no entry.
C9_DescendsIntoEveryObject ==
  pc = "done" =>
    IF ~isPlainObject(value) THEN flattenedObj = PassedThrough
    ELSE /\ ~flattenedObj.passedThrough
         /\ \A p \in ScalarLeafPaths :
              LET k == DotJoinedPath(KeysAlong(value, p))
              IN /\ k \in DOMAIN flattenedObj.map
                 /\ (\A q \in ScalarLeafPaths :
                       VisitedBefore(p, q) => DotJoinedPath(KeysAlong(value, q)) # k)
                      => flattenedObj.map[k] = NodeAt(value, p)
         /\ \A k \in DOMAIN flattenedObj.map :
              /\ \E p \in ScalarLeafPaths : DotJoinedPath(KeysAlong(value, p)) = k
              /\ ~IsNonNullObject(flattenedObj.map[k])

\* C9 witness: an array two levels down is flattened away by its indices:
\* {a: {b: [1]}} gives {"a.b.0": 1}.
C9_Witness ==
  /\ pc = "done"
  /\ value = Node("plain", <<<<"a">>>>,
                  <<Node("plain", <<<<"b">>>>,
                         <<Node("array", <<>>, <<Leaf("prim", 1)>>)>>)>>)
  /\ DOMAIN flattenedObj.map = {<<"a", ".", "b", ".", "0">>}
  /\ flattenedObj.map[<<"a", ".", "b", ".", "0">>] = Leaf("prim", 1)

(***************************************************************************)
(* utils.ts: getComplexKeys, mapOptionFieldNames, mapWhereFieldNames       *)
(***************************************************************************)

\* Most nodes of a where structure handed to mapWhereFieldNames.
MaxWhereNodes == 4

\* The registered operator symbols (Object.values(Op)) that the model uses.
operatorsSet == {"Op.or"}

Undefined == Leaf("undefined", 0)

HasKey(o, k) == \E i \in 1..Len(o.ks) : o.ks[i] = k

\* obj[k]
Get(o, k) ==
  IF HasKey(o, k) THEN o.es[CHOOSE i \in 1..Len(o.ks) : o.ks[i] = k] ELSE Undefined

\* obj[k] = v: in place for a key that exists, at the end for a new one.
Set(o, k, v) ==
  IF HasKey(o, k)
  THEN [o EXCEPT !.es = [i \in 1..Len(o.es) |-> IF o.ks[i] = k THEN v ELSE o.es[i]]]
  ELSE [o EXCEPT !.ks = Append(o.ks, k), !.es = Append(o.es, v)]

\* delete obj[k]
Delete(o, k) ==
  IF HasKey(o, k)
  THEN LET at == CHOOSE i \in 1..Len(o.ks) : o.ks[i] = k
           Without(q) == [i \in 1..(Len(q) - 1) |-> IF i < at THEN q[i] ELSE q[i + 1]]
       IN [o EXCEPT !.ks = Without(o.ks), !.es = Without(o.es)]
  ELSE o

getOperators(o) == SelectSeq(o.ks, LAMBDA k : k \in operatorsSet)

\* The operator symbols first, then the string keys.
getComplexKeys(o) == getOperators(o) \o SelectSeq(o.ks, LAMBDA k : k \notin operatorsSet)

\* rawAttribute.type instanceof DataTypes.HSTORE || ... DataTypes.JSON
IsOpaqueType(type) == type \in {"HSTORE", "JSON"}

\* An options object; NoAttributes stands for an attributes key that is not an array.
NoAttributes == <<"none">>

\* options.attributes.map(...): a logical name with another physical field
\* becomes the pair [field, name].
MapAttributeList(attrs, M) ==
  [i \in 1..Len(attrs) |->
     IF attrs[i] \in DOMAIN M.rawAttributes /\ attrs[i] # M.rawAttributes[attrs[i]].field
     THEN <<M.rawAttributes[attrs[i]].field, attrs[i]>>
     ELSE attrs[i]]

RECURSIVE mapWhereFieldNames(_, _), mapOptionFieldNames(_, _), MapWhereKeys(_, _, _, _)

\* The body of the forEach for one key, on the structure as it is by then.
MapWhereKey(attrs, attribute, M) ==
  LET known == attribute \in DOMAIN M.rawAttributes
      renamed ==
        IF known /\ M.rawAttributes[attribute].field # M.rawAttributes[attribute].fieldName
        THEN Delete(Set(attrs, M.rawAttributes[attribute].field, Get(attrs, attribute)),
                    attribute)
        ELSE attrs
      nested ==
        IF /\ isPlainObject(Get(renamed, attribute))
           /\ ~(known /\ IsOpaqueType(M.rawAttributes[attribute].type))
        THEN Set(renamed, attribute,
                 mapOptionFieldNames([attributes |-> NoAttributes,
                                      where |-> Get(renamed, attribute)], M).where)
        ELSE renamed
      list == Get(nested, attribute)
  IN IF isArray(list)
     THEN Set(nested, attribute,
              [list EXCEPT !.es = [i \in 1..Len(list.es) |->
                                     IF isPlainObject(list.es[i])
                                     THEN mapWhereFieldNames(list.es[i], M)
                                     ELSE list.es[i]]])
     ELSE nested

\* The forEach over the keys taken before the loop, from the i-th on.
MapWhereKeys(attrs, keys, i, M) ==
  IF i > Len(keys) THEN attrs
  ELSE MapWhereKeys(MapWhereKey(attrs, keys[i], M), keys, i + 1, M)

mapWhereFieldNames(attrs, M) ==
  IF attrs.t \in {"undefined", "null"} THEN attrs
  ELSE MapWhereKeys(attrs, getComplexKeys(attrs), 1, M)

mapOptionFieldNames(opts, M) ==
  LET mapped == IF opts.attributes # NoAttributes
                THEN [opts EXCEPT !.attributes = MapAttributeList(opts.attributes, M)]
                ELSE opts
  IN IF isPlainObject(mapped.where)
     THEN [mapped EXCEPT !.where = mapWhereFieldNames(mapped.where, M)]
     ELSE mapped

WhereLeaves == {Leaf("prim", 1)}

\* Keys of where structures: attribute names, a name the model does not know
\* and an operator.
WhereKeys == AttrNames \cup {"z"} \cup operatorsSet

WhereSubtrees == TreeTable(<<>>, MaxWhereNodes - 1, WhereLeaves, {"plain"}, WhereKeys)

\* The column an attribute is stored in when it is not stored under its own name.
ColumnOf(n) == IF n = "a" THEN "x" ELSE "y"

\* Models whose attributes keep their name as field or are stored in a column
\* of their own.
WhereModels ==
  [rawAttributes :
     {ra \in RawAttributeSets(AttrNames \cup {"x", "y"}, DataTypeNames) :
        \A n \in DOMAIN ra : ra[n].field \in {n, ColumnOf(n)}},
   _virtualAttributes : {{}}]

InitWhere ==
  /\ pc = "call"
  /\ Model \in WhereModels
  /\ TreeUpTo(whereArg, WhereSubtrees, MaxWhereNodes, WhereLeaves, {"plain"}, WhereKeys)
  /\ isPlainObject(whereArg)
  /\ attributes = whereArg
  /\ QuoteIdle /\ ValueIdle /\ CloneIdle /\ CombineIdle /\ FlattenIdle /\ IndexIdle

MapWhereFieldNames ==
  /\ pc = "call"
  /\ attributes' = mapWhereFieldNames(attributes, Model)
  /\ pc' = "done"
  /\ UNCHANGED <<Model, whereArg>>
  /\ UNCHANGED <<quoteVars, valueVars, cloneVars, combineVars, flattenVars, indexVars>>

NextWhere == MapWhereFieldNames

SpecWhere == InitWhere /\ [][NextWhere]_vars

(***************************************************************************)
(* Properties of mapWhereFieldNames                                        *)
(***************************************************************************)

\* A key that names an attribute whose physical field differs from its name.
NamesRenamedAttribute(k) ==
  k \in DOMAIN Model.rawAttributes /\ Model.rawAttributes[k].field # k

PhysicalKey(k) == IF NamesRenamedAttribute(k) THEN Model.rawAttributes[k].field ELSE k

NamesOpaqueAttribute(k) ==
  k \in DOMAIN Model.rawAttributes /\ IsOpaqueType(Model.rawAttributes[k].type)

\* res is orig with every level mapped: each key is found under its physical
\* name, no renamed logical key is left, and the value under it is the former
\* value, itself mapped where it is a plain keyed structure or an array of
\* them; the values of HSTORE/JSON attributes are not constrained here.
RECURSIVE WhereMapped(_, _)
WhereMapped(orig, res) ==
  /\ isPlainObject(res)
  /\ \A i \in 1..Len(orig.ks) :
       LET k == orig.ks[i]
           v == orig.es[i]
           r == Get(res, PhysicalKey(k))
       IN /\ HasKey(res, PhysicalKey(k))
          /\ NamesRenamedAttribute(k) => ~HasKey(res, k)
          /\ \/ NamesOpaqueAttribute(k)
             \/ /\ isPlainObject(v)
                /\ WhereMapped(v, r)
             \/ /\ isArray(v)
                /\ isArray(r)
                /\ Len(r.es) = Len(v.es)
                /\ \A j \in 1..Len(v.es) :
                     IF isPlainObject(v.es[j]) THEN WhereMapped(v.es[j], r.es[j])
                     ELSE r.es[j] = v.es[j]
             \/ /\ ~isPlainObject(v)
                /\ ~isArray(v)
                /\ r = v

\* C4: after mapWhereFieldNames, at the top level and at every level reached
\* through plain keyed values and plain keyed elements of arrays (values of
\* HSTORE/JSON attributes excepted), every key that names an attribute with
\* another physical field has been replaced by the physical field, the value
\* formerly under the logical key is under the physical key, and every other
\* key and its value are still there.
C4_AsStated == pc = "done" => WhereMapped(whereArg, attributes)

\* The value of key k of the original in the result: under the physical key
\* where the key was renamed, under k itself where it was not.
Found(res, k) == IF HasKey(res, PhysicalKey(k)) THEN Get(res, PhysicalKey(k)) ELSE Get(res, k)

\* res keeps the values of HSTORE/JSON attributes of orig as they were, at the
\* top level and at every level below values that are not such attributes'.
RECURSIVE OpaqueKept(_, _)
OpaqueKept(orig, res) ==
  \A i \in 1..Len(orig.ks) :
    LET k == orig.ks[i]
        v == orig.es[i]
        r == Found(res, k)
    IN IF NamesOpaqueAttribute(k) THEN r = v
       ELSE IF isPlainObject(v) THEN OpaqueKept(v, r)
       ELSE IF isArray(v)
            THEN \A j \in 1..Len(v.es) :
                   (isPlainObject(v.es[j]) /\ j <= Len(r.es)) => OpaqueKept(v.es[j], r.es[j])
            ELSE TRUE

\* C5: mapWhereFieldNames leaves the value under a key whose attribute type is
\* HSTORE or JSON unchanged: no key inside it is renamed at any depth, whether
\* the value is a plain keyed structure or a sequence holding plain keyed
\* structures.
C5_AsStated == pc = "done" => OpaqueKept(whereArg, attributes)

\* The model of the failing inputs below: "a" is a JSON attribute under its
\* own name, "b" a STRING attribute stored in column "y".
JsonAndRenamedModel ==
  [rawAttributes |-> [a |-> RawAttribute("a", "a", "JSON"),
                      b |-> RawAttribute("b", "y", "STRING")],
   _virtualAttributes |-> {}]

\* {a: [{b: 1}]} comes back as {a: [{y: 1}]}: the array under the JSON
\* attribute has been mapped.
C5_FailingInputReached ==
  /\ pc = "done"
  /\ Model = JsonAndRenamedModel
  /\ whereArg = Node("plain", <<"a">>,
                     <<Node("array", <<>>, <<Node("plain", <<"b">>, <<Leaf("prim", 1)>>)>>)>>)
  /\ attributes = Node("plain", <<"a">>,
                       <<Node("array", <<>>, <<Node("plain", <<"y">>, <<Leaf("prim", 1)>>)>>)>>)

\* {b: {b: 1}} comes back as {y: {b: 1}}: the level under the renamed key has
\* not been mapped.
C4_FailingInputReached ==
  /\ pc = "done"
  /\ Model = JsonAndRenamedModel
  /\ whereArg = Node("plain", <<"b">>, <<Node("plain", <<"b">>, <<Leaf("prim", 1)>>)>>)
  /\ attributes = Node("plain", <<"y">>, <<Node("plain", <<"b">>, <<Leaf("prim", 1)>>)>>)

(***************************************************************************)
(* utils.ts: cloneDeep                                                     *)
(*                                                                         *)
(* The v field of an object node holds its reference: Original for the     *)
(* object the caller passed at that position, another value for an object  *)
(* made during the call.  A result node is the same reference as the       *)
(* input node at its position exactly when it equals it.                   *)
(***************************************************************************)

\* Most nodes of a value handed to cloneDeep.
MaxCloneNodes == 3

\* The reference of an object that was passed in.
Original == 0

\* The reference of an array or plain object made by the structural copy.
FreshCopy == 1

\* The reference of an object returned by a clone() method.
CloneResult == 2

\* typeof elem
TypeOf(elem) ==
  IF elem.t \in {"plain", "array", "Fn", "instance", "null"} THEN "object"
  ELSE IF elem.t \in {"function", "functionWithClone"} THEN "function"
  ELSE IF elem.t = "undefined" THEN "undefined"
  ELSE "number"

\* elem && typeof elem.clone === 'function'
HasClone(elem) == elem.t \in {"Fn", "functionWithClone"}

\* Fn.clone: a new wrapper around the same fn and the same args.
clone(elem) == [elem EXCEPT !.v = CloneResult]

\* The optional boolean as a condition.
IsTruthy(flag) == flag = "true"

\* The customizer handed to cloneDeepWith; Undefined asks for the default copy.
Customizer(elem, flag) ==
  IF isArray(elem) \/ isPlainObject(elem) THEN Undefined
  ELSE IF IsTruthy(flag) \/ TypeOf(elem) = "object" THEN elem
  ELSE IF HasClone(elem) THEN clone(elem)
  ELSE Undefined

\* cloneDeepWith: the customizer's answer where it gives one, else a new array
\* or plain object holding the copies of the elements, else the value itself.
RECURSIVE cloneDeepWith(_, _)
cloneDeepWith(elem, flag) ==
  LET custom == Customizer(elem, flag)
  IN IF custom # Undefined THEN custom
     ELSE IF isArray(elem) \/ isPlainObject(elem)
          THEN [elem EXCEPT !.v = FreshCopy,
                            !.es = [i \in 1..Len(elem.es) |-> cloneDeepWith(elem.es[i], flag)]]
          ELSE elem

\* obj = obj || {}
cloneDeep(o, flag) ==
  cloneDeepWith(IF o.t \in {"undefined", "null"} THEN Node("plain", <<>>, <<>>) ELSE o, flag)

\* A wrapper made by new Fn(fn, args).
FnValue == Node("Fn", <<"fn", "args">>, <<Leaf("prim", 1), Node("array", <<>>, <<>>)>>)

\* What a tree holds besides arrays and plain objects: a primitive, null, an
\* Fn, an instance of a class without clone, a function, a function that has
\* a clone property.
CloneLeaves ==
  {Leaf("prim", 1), Leaf("null", 0), FnValue, Leaf("instance", Original),
   Leaf("function", Original), Leaf("functionWithClone", Original)}

CloneKeys == {"a", "b"}

CloneSubtrees == TreeTable(<<>>, MaxCloneNodes - 1, CloneLeaves, {"plain"}, CloneKeys)

\* onlyPlain?: boolean
OnlyPlainValues == {"true", "false", "undefined"}

NotCloned == Leaf("none", 0)

InitClone ==
  /\ pc = "call"
  /\ onlyPlain \in OnlyPlainValues
  /\ \/ obj = Undefined
     \/ /\ TreeUpTo(obj, CloneSubtrees, MaxCloneNodes, CloneLeaves, {"plain"}, CloneKeys)
        /\ TypeOf(obj) = "object"
  /\ cloned = NotCloned
  /\ Model = Idle
  /\ QuoteIdle /\ WhereIdle /\ ValueIdle /\ CombineIdle /\ FlattenIdle /\ IndexIdle

CloneDeep ==
  /\ pc = "call"
  /\ cloned' = cloneDeep(obj, onlyPlain)
  /\ pc' = "done"
  /\ UNCHANGED <<obj, onlyPlain, Model>>
  /\ UNCHANGED <<quoteVars, whereVars, valueVars, combineVars, flattenVars, indexVars>>

NextClone == CloneDeep

SpecClone == InitClone /\ [][NextClone]_vars

(***************************************************************************)
(* Properties of cloneDeep                                                 *)
(***************************************************************************)

\* An object value that is neither an array nor a plain keyed structure.
IsOtherObject(n) == n.t \in {"Fn", "instance", "function", "functionWithClone"}

\* res is what the contract asks for orig: arrays and plain keyed structures
\* are distinct copies with the same keys, whose elements are in turn what the
\* contract asks for; any other object is the same reference when onlyPlain is
\* true or the object has no clone, and the value clone() returns otherwise;
\* what is not an object is itself.
RECURSIVE ClonedAsStated(_, _)
ClonedAsStated(orig, res) ==
  IF isArray(orig) \/ isPlainObject(orig)
  THEN /\ res.t = orig.t
       /\ res.v # Original
       /\ res.ks = orig.ks
       /\ Len(res.es) = Len(orig.es)
       /\ \A i \in 1..Len(orig.es) : ClonedAsStated(orig.es[i], res.es[i])
  ELSE IF IsOtherObject(orig)
       THEN IF IsTruthy(onlyPlain) \/ ~HasClone(orig)
            THEN res = orig
            ELSE res = clone(orig) /\ res # orig
       ELSE res = orig

\* C7: cloneDeep copies arrays and plain keyed structures structurally at
\* every depth, the copies distinct from the originals; any other object value
\* is passed through by reference when onlyPlain is true; when onlyPlain is
\* not true and the value has a clone operation, as Fn has, the result holds
\* the value returned by clone(), not the original reference; a value without
\* clone is passed through by reference.
C7_AsStated ==
  (pc = "done" /\ obj.t \notin {"undefined", "null"}) => ClonedAsStated(obj, cloned)

\* cloneDeep({a: new Fn(...)}) without onlyPlain comes back holding the very
\* Fn that was passed, not the result of its clone().
C7_FailingInputReached ==
  /\ pc = "done"
  /\ onlyPlain = "undefined"
  /\ obj = Node("plain", <<"a">>, <<FnValue>>)
  /\ cloned = [Node("plain", <<"a">>, <<FnValue>>) EXCEPT !.v = FreshCopy]

====
